---- MODULE Spec2Model ----
(***************************************************************************)
(* Model of the scheduled-job orchestration service                        *)
(* (packages/Upgrade/src/api/services/ScheduledJobService.ts) and of the   *)
(* database bootstrap loader (typeormLoader).                              *)
(*                                                                         *)
(* State: the scheduled_job table, the set of experiment rows, the         *)
(* executions held by the external step-function service, the position of  *)
(* every updateExperimentSchedules call in flight (one step per await),    *)
(* the last start/end callback served, and the loader.                     *)
(***************************************************************************)
EXTENDS Integers, Sequences, FiniteSets, TLC

\* ---------------------------------------------------------------- bounds
NumExps == 1      \* experiment ids 1..NumExps
NumProcs == 2     \* updateExperimentSchedules calls that may be in flight together
MaxDate == 2      \* dates are 1..MaxDate
MaxExec == 3      \* executions the step-function service accepts
MaxCalls == 2     \* updateExperimentSchedules invocations in one behaviour

Exps == 1..NumExps
Procs == 1..NumProcs
Dates == 1..MaxDate

\* ---------------------------------------------------------------- values
NoDate == 0       \* startOn / endOn / timeStamp not set (falsy)
NoArn == 0        \* executionArn not set (falsy)
NoExp == 0        \* experimentId not set (falsy)
NoData == [executionArn |-> NoArn]

START_EXPERIMENT == "START_EXPERIMENT"
END_EXPERIMENT == "END_EXPERIMENT"
SCHEDULE_TYPE == {START_EXPERIMENT, END_EXPERIMENT}

SCHEDULED == "scheduled"
ENROLLING == "enrolling"
ENROLLMENT_COMPLETE == "enrollmentComplete"
CANCELLED == "cancelled"
EXPERIMENT_STATE == {SCHEDULED, ENROLLING, ENROLLMENT_COMPLETE, CANCELLED}

QUERY_FAILED == "QUERY_FAILED"
DB_UNREACHABLE == "DB_UNREACHABLE"
DB_AUTH_FAIL == "DB_AUTH_FAIL"

\* `${experiment.id}_${type}`: the pair, which the string determines.
JobId(e, t) == <<e, t>>
JobIds == {JobId(e, t) : e \in Exps, t \in SCHEDULE_TYPE}

VARIABLES
    loader,          \* typeormLoader: its position and what it raised
    jobs,            \* scheduled_job table: JobIds -> row or NoRow
    experimentRows,  \* ids of the rows of the experiment table
    execs,           \* step-function executions; the arn is the index
    calls,           \* Procs -> the updateExperimentSchedules call in that slot
    callsMade,       \* number of updateExperimentSchedules invocations so far
    cb               \* what the last step returned, when it was a startExperiment /
                     \* endExperiment invocation (NoCallback after any other step)

vars == <<loader, jobs, experimentRows, execs, calls, callsMade, cb>>


\* A row of the scheduled_job table; NoRow is what find / findOne give when
\* nothing matches (undefined).
Row(id, experimentId, type, timeStamp, executionArn) ==
    [id |-> id, experimentId |-> experimentId, type |-> type,
     timeStamp |-> timeStamp, executionArn |-> executionArn]
NoRow == Row(<<>>, NoExp, "", NoDate, NoArn)

\* The experiment entity handed to updateExperimentSchedules.
Experiment(id, state, startOn, endOn) ==
    [id |-> id, state |-> state, startOn |-> startOn, endOn |-> endOn]
NoExperiment == Experiment(NoExp, "", NoDate, NoDate)

\* ------------------------------------------------ step-function service
\* url chosen by startExperimentSchedular
Url(type) ==
    IF type = START_EXPERIMENT THEN "/scheduledJobs/start" ELSE "/scheduledJobs/end"

\* The execution the service creates for one stepFunctionStartExecution call;
\* response: what its HTTP callback got ("none" until it has called back).
Execution(timeStamp, body, url) ==
    [timeStamp |-> timeStamp, body |-> body, url |-> url,
     stopRequested |-> FALSE, stopped |-> FALSE, response |-> "none"]

Running(arn) == arn \in DOMAIN execs /\ ~execs[arn].stopped

\* stepFunctionStartExecution resolves only while the service accepts executions.
CanStart == Len(execs) < MaxExec

\* stepFunctionStopExecution({executionArn}): the executions afterwards. A stop
\* of an unknown arn is rejected; a rejected stop leaves the execution running.
StopExecution(arn, ok) ==
    IF arn \in DOMAIN execs
    THEN [execs EXCEPT ![arn] = [@ EXCEPT !.stopRequested = TRUE,
                                           !.stopped = @ \/ ok]]
    ELSE execs

\* ------------------------------------------- updateExperimentSchedules
\* What a call saw of startExperimentSchedular for one schedule type: the arn
\* the step-function start call resolved with (NoArn: not called, or rejected),
\* whether startExperimentSchedular threw, and the executionArn it returned.
NoSchedule == [called |-> FALSE, arn |-> NoArn, threw |-> FALSE, returned |-> NoArn]

\* A call's record: its position (pc, sec), its argument, what find gave it,
\* the response of startExperimentSchedular, how it ended and what it logged;
\* rejected: a repository or step-function call of this call was rejected.
IdleCall ==
    [pc |-> "idle", sec |-> START_EXPERIMENT, exp |-> NoExperiment,
     startDoc |-> NoRow, endDoc |-> NoRow, response |-> NoData,
     outcome |-> "none", logged |-> "none",
     rejected |-> FALSE, sched |-> [t \in SCHEDULE_TYPE |-> NoSchedule]]

experimentStartCondition(exp) == exp.state = SCHEDULED

experimentEndCondition(exp) ==
    ~(exp.state = ENROLLMENT_COMPLETE \/ exp.state = CANCELLED) /\ exp.endOn # NoDate

Condition(exp, type) ==
    IF type = START_EXPERIMENT THEN experimentStartCondition(exp)
    ELSE experimentEndCondition(exp)

\* startOn for the start schedule, endOn for the end schedule
DateOf(exp, type) == IF type = START_EXPERIMENT THEN exp.startOn ELSE exp.endOn

\* startExperimentDoc / endExperimentDoc of a call
DocOf(c, type) == IF type = START_EXPERIMENT THEN c.startDoc ELSE c.endDoc

\* doc.timeStamp !== on, for two Date objects: the row's timeStamp is an object
\* the repository built for this query and `on` is the caller's, so the two
\* are never the same object, whatever dates they hold.
StrictNotEqual(docTimeStamp, on) == TRUE

\* !doc || (on && doc.timeStamp !== on)
NeedsSchedule(doc, on) ==
    doc = NoRow \/ (on # NoDate /\ StrictNotEqual(doc.timeStamp, on))

\* A new row whose id always carries the start type.
DocOrNewStartId(doc, exp, type) ==
    IF doc # NoRow THEN doc
    ELSE Row(JobId(exp.id, START_EXPERIMENT), exp.id, type, DateOf(exp, type), NoArn)

\* startExperimentDoc || { id: `${experiment.id}_${type}`, experimentId, type, timeStamp }
DocOrNew(doc, exp, type) ==
    IF doc # NoRow THEN doc
    ELSE Row(JobId(exp.id, type), exp.id, type, DateOf(exp, type), NoArn)

\* Catch with the error thrown on to the caller instead of logged.
CatchRethrow(c, error) ==
    [c EXCEPT !.pc = "done", !.outcome = "threw"]

\* Catch with the error logged inside the start section only, the call going
\* on to schedule the end.
CatchContinue(c, error) ==
    [c EXCEPT !.logged = error, !.outcome = "returned", !.sec = END_EXPERIMENT,
              !.pc = IF c.sec = START_EXPERIMENT /\ experimentEndCondition(c.exp)
                     THEN "schedule" ELSE "done"]

\* catch (error) { this.log.error(...) }: the call completes normally.
Catch(c, error) ==
    [c EXCEPT !.pc = "done", !.outcome = "returned", !.logged = error]

\* The end of the try block.
Finish(c) == [c EXCEPT !.pc = "done", !.outcome = "returned"]

\* The synchronous code from the top of a schedule's section to its first await.
EnterEnd(c) ==
    LET c1 == [c EXCEPT !.sec = END_EXPERIMENT] IN
    IF experimentEndCondition(c.exp)
    THEN IF NeedsSchedule(c.endDoc, c.exp.endOn)
         THEN [c1 EXCEPT !.pc = "schedule"]
         ELSE Finish(c1)
    ELSE IF c.endDoc # NoRow
         THEN [c1 EXCEPT !.pc = "delete"]
         ELSE Finish(c1)

EnterStart(c) ==
    LET c1 == [c EXCEPT !.sec = START_EXPERIMENT] IN
    IF experimentStartCondition(c.exp)
    THEN IF NeedsSchedule(c.startDoc, c.exp.startOn)
         THEN [c1 EXCEPT !.pc = "schedule"]
         ELSE EnterEnd(c1)
    ELSE IF c.startDoc # NoRow
         THEN [c1 EXCEPT !.pc = "delete"]
         ELSE EnterEnd(c1)

\* What follows a section: the end section after the start one, then the end.
LeaveSection(c) == IF c.sec = START_EXPERIMENT THEN EnterEnd(c) ELSE Finish(c)

\* The input startExperimentSchedular hands to stepFunctionStartExecution
\* (JSON.stringify({timeStamp, body, url})).
StateMachineInput(timeStamp, body, type) ==
    [timeStamp |-> timeStamp, body |-> body, url |-> Url(type)]

\* startExperimentSchedular with the rejection of the start call swallowed: it
\* returns no data instead of throwing.
startExperimentSchedularSwallow(resolved, returnData) ==
    IF ~resolved
    THEN [threw |-> FALSE, error |-> "none", message |-> "", data |-> NoData]
    ELSE [threw |-> TRUE, error |-> QUERY_FAILED,
          message |-> "Logs of step function", data |-> NoData]

\* startExperimentSchedular once stepFunctionStartExecution has resolved
\* (resolved = TRUE, with returnData) or rejected. The rejection is rethrown as
\* QUERY_FAILED by the .catch; after a resolved call the statement that follows
\* throws QUERY_FAILED with the returned data as its message, so that
\* `return returnData` is never reached.
startExperimentSchedular(resolved, returnData) ==
    IF ~resolved
    THEN [threw |-> TRUE, error |-> QUERY_FAILED,
          message |-> "Error in calling step function", data |-> NoData]
    ELSE [threw |-> TRUE, error |-> QUERY_FAILED,
          message |-> "Logs of step function", data |-> NoData]

\* ------------------------------------------- startExperiment / endExperiment
NoRequest == [experimentId |-> NoExp, state |-> "", user |-> ""]
NoCallback ==
    [op |-> "none", id |-> <<>>, outcome |-> "none", result |-> "none",
     request |-> NoRequest]

\* experimentService.updateState(experimentId, state, systemUser)
UpdateState(experimentId, state) ==
    [experimentId |-> experimentId, state |-> state, user |-> "system"]

\* startExperiment without the lookup of the experiment.
startExperimentUnchecked(id, table, experiments) ==
    LET scheduledJob == table[id] IN
    IF scheduledJob # NoRow /\ scheduledJob.experimentId # NoExp
    THEN [op |-> "startExperiment", id |-> id, outcome |-> "returned",
          result |-> "updateState",
          request |-> UpdateState(scheduledJob.experimentId, ENROLLING)]
    ELSE [op |-> "startExperiment", id |-> id, outcome |-> "returned",
          result |-> "empty", request |-> NoRequest]

\* startExperiment(id) on the tables given: what it returns and what it requests.
startExperiment(id, table, experiments) ==
    LET scheduledJob == table[id] IN
    IF scheduledJob # NoRow /\ scheduledJob.experimentId # NoExp
    THEN IF scheduledJob # NoRow /\ scheduledJob.experimentId \in experiments
         THEN [op |-> "startExperiment", id |-> id, outcome |-> "returned",
               result |-> "updateState",
               request |-> UpdateState(scheduledJob.experimentId, ENROLLING)]
         ELSE [op |-> "startExperiment", id |-> id, outcome |-> "returned",
               result |-> "empty", request |-> NoRequest]
    ELSE [op |-> "startExperiment", id |-> id, outcome |-> "returned",
          result |-> "empty", request |-> NoRequest]

\* endExperiment(id): scheduledJob.experimentId is read before scheduledJob is
\* tested, which throws a TypeError when no row has that id.
endExperiment(id, table, experiments) ==
    LET scheduledJob == table[id] IN
    IF scheduledJob = NoRow
    THEN [op |-> "endExperiment", id |-> id, outcome |-> "threw",
          result |-> "TypeError", request |-> NoRequest]
    ELSE IF scheduledJob # NoRow /\ scheduledJob.experimentId \in experiments
         THEN [op |-> "endExperiment", id |-> id, outcome |-> "returned",
               result |-> "updateState",
               request |-> UpdateState(scheduledJob.experimentId, ENROLLMENT_COMPLETE)]
         ELSE [op |-> "endExperiment", id |-> id, outcome |-> "returned",
               result |-> "empty", request |-> NoRequest]

\* ---------------------------------------------------------- typeormLoader
\* error.code of a createConnection failure; "none": the error has no code.
ErrorCodes == {"ECONNREFUSED", "ETIMEDOUT", "28P01", "none"}

\* The catch block with every failure reported as an authentication failure.
LoaderErrorAuthOnly(code) == DB_AUTH_FAIL

\* The catch block of typeormLoader: what it throws for an error code.
LoaderError(code) == IF code = "ECONNREFUSED" THEN DB_UNREACHABLE ELSE DB_AUTH_FAIL

\* The application serves requests once the loader has completed normally.
Bootstrapped == loader.pc = "done" /\ loader.raised = "none"

\* ------------------------------------------------------------------ Init
\* The database as the service finds it: every scheduled_job row is one the
\* service wrote (id, type, a timeStamp, the arn of the execution started for
\* it, still running). An experiment may have been removed since: its row is
\* gone, and its scheduled_job rows either still name it ("removed") or have
\* lost their experimentId ("unlinked").
InitRows ==
    {f \in [JobIds -> [present : BOOLEAN, timeStamp : Dates]] :
        \A j \in JobIds : ~f[j].present => f[j].timeStamp = 1}

InitExperiments == [Exps -> {"kept", "removed", "unlinked"}]

\* The arn of the execution of an initial row: rows are numbered in id order.
InitArn(f, j) ==
    Cardinality({k \in JobIds : f[k].present /\
        (k[1] < j[1] \/ (k[1] = j[1] /\ (k[2] = START_EXPERIMENT \/ k[2] = j[2])))})

InitJobs(f, g) ==
    [j \in JobIds |->
        IF f[j].present
        THEN Row(j, IF g[j[1]] = "unlinked" THEN NoExp ELSE j[1], j[2],
                 f[j].timeStamp, InitArn(f, j))
        ELSE NoRow]

InitExecs(f) ==
    LET n == Cardinality({k \in JobIds : f[k].present}) IN
    [a \in 1..n |->
        LET j == CHOOSE k \in JobIds : f[k].present /\ InitArn(f, k) = a IN
        Execution(f[j].timeStamp, [id |-> j], Url(j[2]))]

\* The loader before it runs, and after it has completed normally.
LoaderStart(given) ==
    [pc |-> "getConnectionOptions", settings |-> given, raised |-> "none",
     failed |-> "none", code |-> "none", connection |-> FALSE, onShutdown |-> FALSE]
LoaderDone ==
    [pc |-> "done", settings |-> TRUE, raised |-> "none",
     failed |-> "none", code |-> "none", connection |-> TRUE, onShutdown |-> TRUE]

\* The service, constructed once the loaders have run, over a database whose
\* experiments are all there.
Init ==
    /\ loader = LoaderDone
    /\ \E f \in InitRows :
         /\ jobs = InitJobs(f, [e \in Exps |-> "kept"])
         /\ execs = InitExecs(f)
    /\ experimentRows = Exps
    /\ calls = [p \in Procs |-> IdleCall]
    /\ callsMade = 0
    /\ cb = NoCallback

\* The application before its loaders run, over any database.
InitBoot ==
    /\ \E given \in BOOLEAN : loader = LoaderStart(given)
    /\ \E f \in InitRows, g \in InitExperiments :
         /\ jobs = InitJobs(f, g)
         /\ execs = InitExecs(f)
         /\ experimentRows = {e \in Exps : g[e] = "kept"}
    /\ calls = [p \in Procs |-> IdleCall]
    /\ callsMade = 0
    /\ cb = NoCallback

\* --------------------------------------------------------------- actions
\* typeormLoader up to its first await: getConnectionOptions resolves or rejects.
GetConnectionOptions ==
    /\ loader.pc = "getConnectionOptions"
    /\ \E ok \in BOOLEAN :
         loader' = IF ok THEN [loader EXCEPT !.pc = "createConnection"]
                   ELSE [loader EXCEPT !.pc = "done", !.raised = "optionsError",
                                       !.failed = "getConnectionOptions"]
    /\ cb' = NoCallback
    /\ UNCHANGED <<jobs, experimentRows, execs, calls, callsMade>>

\* createConnection resolves (the connection is handed to the settings, when
\* given) or rejects with an error whose code is `code`.
CreateConnection ==
    /\ loader.pc = "createConnection"
    /\ \/ loader' = [loader EXCEPT !.pc = "done",
                                   !.connection = loader.settings,
                                   !.onShutdown = loader.settings]
       \/ \E code \in ErrorCodes :
            loader' = [loader EXCEPT !.pc = "done", !.code = code,
                                     !.failed = "createConnection",
                                     !.raised = LoaderError(code)]
    /\ cb' = NoCallback
    /\ UNCHANGED <<jobs, experimentRows, execs, calls, callsMade>>

\* A caller invokes updateExperimentSchedules(experiment); the slots are
\* interchangeable, so a call takes the first idle one.
Call(p) ==
    /\ Bootstrapped
    /\ calls[p].pc = "idle"
    /\ \A q \in Procs : q < p => calls[q].pc # "idle"
    /\ callsMade < MaxCalls
    /\ \E e \in Exps, state \in EXPERIMENT_STATE,
          startOn \in Dates \cup {NoDate}, endOn \in Dates \cup {NoDate} :
         calls' = [calls EXCEPT ![p] =
                     [IdleCall EXCEPT !.pc = "find",
                                      !.exp = Experiment(e, state, startOn, endOn)]]
    /\ callsMade' = callsMade + 1
    /\ cb' = NoCallback
    /\ UNCHANGED <<loader, jobs, experimentRows, execs>>

\* scheduledJobs.find(({type}) => type === t): a row of that type among those
\* found, NoRow when there is none.
FoundDocs(e, t) ==
    LET found == {jobs[j] : j \in {k \in JobIds : jobs[k] # NoRow
                                     /\ jobs[k].experimentId = e /\ jobs[k].type = t}}
    IN IF found = {} THEN {NoRow} ELSE found

\* await scheduledJobRepository.find({experimentId: id}), then the code up to
\* the next await.
Find(p) ==
    /\ calls[p].pc = "find"
    /\ \E ok \in BOOLEAN :
         IF ok
         THEN \E sd \in FoundDocs(calls[p].exp.id, START_EXPERIMENT),
                 ed \in FoundDocs(calls[p].exp.id, END_EXPERIMENT) :
                calls' = [calls EXCEPT ![p] =
                            EnterStart([@ EXCEPT !.startDoc = sd, !.endDoc = ed])]
         ELSE calls' = [calls EXCEPT ![p] =
                          Catch([@ EXCEPT !.rejected = TRUE], "find rejected")]
    /\ cb' = NoCallback
    /\ UNCHANGED <<loader, jobs, experimentRows, execs, callsMade>>

\* await this.startExperimentSchedular(on, {id: doc.id}, type): the
\* step-function start call resolves or rejects, then the code up to the next
\* await.
Schedule(p) ==
    LET c == calls[p]
        type == c.sec
        doc == DocOf(c, type)
        newDoc == DocOrNew(doc, c.exp, type)
        on == DateOf(c.exp, type)
        input == StateMachineInput(on, [id |-> newDoc.id], type)
        arn == Len(execs) + 1
    IN
    /\ c.pc = "schedule"
    /\ \E resolved \in BOOLEAN :
         /\ resolved => CanStart
         /\ LET r == startExperimentSchedular(resolved, [executionArn |-> arn])
                c1 == [c EXCEPT !.rejected = @ \/ ~resolved,
                                !.sched[type] =
                                    [called |-> TRUE,
                                     arn |-> IF resolved THEN arn ELSE NoArn,
                                     threw |-> r.threw,
                                     returned |-> r.data.executionArn]]
            IN
            /\ execs' = IF resolved
                        THEN Append(execs, Execution(input.timeStamp, input.body, input.url))
                        ELSE execs
            /\ calls' = [calls EXCEPT ![p] =
                 IF r.threw
                 THEN Catch(c1, r.error)
                 ELSE [c1 EXCEPT !.response = r.data,
                                 !.pc = IF doc # NoRow /\ doc.executionArn # NoArn
                                        THEN "stopOld" ELSE "upsert"]]
    /\ cb' = NoCallback
    /\ UNCHANGED <<loader, jobs, experimentRows, callsMade>>

\* scheduledJobRepository.upsertScheduledJob(row) / delete({id}) on the table
upsertScheduledJob(table, row) == [table EXCEPT ![row.id] = row]
\* A delete that matches no row.
DeleteNothing(table, id) == table
DeleteJob(table, id) == [table EXCEPT ![id] = NoRow]

\* await this.stopExperimentSchedular(doc.executionArn): before the upsert of a
\* rescheduled row ("stopOld"), or after the delete of a row ("stop").
Stop(p) ==
    LET c == calls[p]
        doc == DocOf(c, c.sec)
    IN
    /\ c.pc \in {"stopOld", "stop"}
    /\ \E ok \in BOOLEAN :
         /\ ok => doc.executionArn \in DOMAIN execs
         /\ execs' = StopExecution(doc.executionArn, ok)
         /\ calls' = [calls EXCEPT ![p] =
              IF ~ok THEN Catch([c EXCEPT !.rejected = TRUE], "stop rejected")
              ELSE IF c.pc = "stopOld" THEN [c EXCEPT !.pc = "upsert"]
              ELSE LeaveSection(c)]
    /\ cb' = NoCallback
    /\ UNCHANGED <<loader, jobs, experimentRows, callsMade>>

\* await scheduledJobRepository.upsertScheduledJob({...doc, timeStamp, executionArn})
\* or await scheduledJobRepository.delete({id: doc.id})
Write(p) ==
    LET c == calls[p]
        type == c.sec
        doc == DocOf(c, type)
        row == [DocOrNew(doc, c.exp, type) EXCEPT
                   !.timeStamp = DateOf(c.exp, type),
                   !.executionArn = c.response.executionArn]
    IN
    /\ c.pc \in {"upsert", "delete"}
    /\ \E ok \in BOOLEAN :
         IF ~ok
         THEN /\ jobs' = jobs
              /\ calls' = [calls EXCEPT ![p] =
                             Catch([c EXCEPT !.rejected = TRUE], "write rejected")]
         ELSE IF c.pc = "upsert"
              THEN /\ jobs' = upsertScheduledJob(jobs, row)
                   /\ calls' = [calls EXCEPT ![p] = LeaveSection(c)]
              ELSE /\ jobs' = DeleteJob(jobs, doc.id)
                   /\ calls' = [calls EXCEPT ![p] = [c EXCEPT !.pc = "stop"]]
    /\ cb' = NoCallback
    /\ UNCHANGED <<loader, experimentRows, execs, callsMade>>

\* The caller resumes after its `await updateExperimentSchedules(...)`.
Return(p) ==
    /\ calls[p].pc = "done"
    /\ calls' = [calls EXCEPT ![p] = IdleCall]
    /\ cb' = NoCallback
    /\ UNCHANGED <<loader, jobs, experimentRows, execs, callsMade>>

\* POST /scheduledJobs/start and /scheduledJobs/end with body {id}.
StartExperiment(id) ==
    /\ Bootstrapped
    /\ cb' = startExperiment(id, jobs, experimentRows)
    /\ UNCHANGED <<loader, jobs, experimentRows, execs, calls, callsMade>>

EndExperiment(id) ==
    /\ Bootstrapped
    /\ cb' = endExperiment(id, jobs, experimentRows)
    /\ UNCHANGED <<loader, jobs, experimentRows, execs, calls, callsMade>>

\* updateExperimentSchedules calls, interleaved at their awaits.
Next ==
    \/ \E p \in Procs : Call(p)
    \/ \E p \in Procs : Find(p)
    \/ \E p \in Procs : Schedule(p)
    \/ \E p \in Procs : Stop(p)
    \/ \E p \in Procs : Write(p)
    \/ \E p \in Procs : Return(p)

Spec == Init /\ [][Next]_vars

\* updateExperimentSchedules called when no other call is in flight.
CallSeq(p) ==
    /\ \A q \in Procs : calls[q].pc \in {"idle", "done"}
    /\ Call(p)

\* updateExperimentSchedules calls one after the other.
NextSeq ==
    \/ \E p \in Procs : CallSeq(p)
    \/ \E p \in Procs : Find(p)
    \/ \E p \in Procs : Schedule(p)
    \/ \E p \in Procs : Stop(p)
    \/ \E p \in Procs : Write(p)
    \/ \E p \in Procs : Return(p)

SpecSeq == Init /\ [][NextSeq]_vars

\* A running execution reaches its timeStamp and posts its body to its url:
\* startExperiment(body.id) or endExperiment(body.id) is served.
Callback(a) ==
    /\ Bootstrapped
    /\ a \in DOMAIN execs
    /\ ~execs[a].stopped
    /\ execs[a].response = "none"
    /\ LET served == IF execs[a].url = Url(START_EXPERIMENT)
                     THEN startExperiment(execs[a].body.id, jobs, experimentRows)
                     ELSE endExperiment(execs[a].body.id, jobs, experimentRows)
       IN /\ cb' = served
          /\ execs' = [execs EXCEPT ![a].response = served.result]
    /\ UNCHANGED <<loader, jobs, experimentRows, calls, callsMade>>

\* The one updateExperimentSchedules call after which the experiment is left
\* as it is.
CallLast(p) ==
    /\ callsMade = 0
    /\ Call(p)

\* One updateExperimentSchedules call, and the step-function service calling
\* back for the executions that run.
NextLive ==
    \/ \E p \in Procs : CallLast(p)
    \/ \E p \in Procs : Find(p)
    \/ \E p \in Procs : Schedule(p)
    \/ \E p \in Procs : Stop(p)
    \/ \E p \in Procs : Write(p)
    \/ \E a \in 1..MaxExec : Callback(a)

\* Every await of a call settles, and the step-function service calls back for
\* every execution that runs.
SpecLive ==
    /\ Init
    /\ [][NextLive]_vars
    /\ WF_vars(\E p \in Procs : Find(p) \/ Schedule(p) \/ Stop(p) \/ Write(p))
    /\ WF_vars(\E a \in 1..MaxExec : Callback(a))

\* updateExperimentSchedules called when every other call is in flight or has
\* returned to its caller: two calls that are both finished were in flight
\* together.
CallOverlap(p) ==
    /\ \A q \in Procs : q # p => calls[q].pc # "done"
    /\ Call(p)

\* updateExperimentSchedules calls that interleave at their awaits.
NextOverlap ==
    \/ \E p \in Procs : CallOverlap(p)
    \/ \E p \in Procs : Find(p)
    \/ \E p \in Procs : Schedule(p)
    \/ \E p \in Procs : Stop(p)
    \/ \E p \in Procs : Write(p)
    \/ \E p \in Procs : Return(p)

SpecOverlap == Init /\ [][NextOverlap]_vars

\* The bootstrap, then the start / end callbacks served.
NextBoot ==
    \/ GetConnectionOptions
    \/ CreateConnection
    \/ \E id \in JobIds : StartExperiment(id)
    \/ \E id \in JobIds : EndExperiment(id)

SpecBoot == InitBoot /\ [][NextBoot]_vars

\* ================================================================ claims
Done(p) == calls[p].pc = "done"

\* The row of experiment e and type t with the id the service gives it.
ServiceRow(e, t) == jobs[JobId(e, t)]

\* The rows of experiment e and type t.
RowsOf(e, t) ==
    {j \in JobIds : jobs[j] # NoRow /\ jobs[j].experimentId = e /\ jobs[j].type = t}

\* After a call for which find gave no row of type t, the schedule condition of
\* t held and the step-function start call resolved: the single row of type t.
Scheduled(p, t) ==
    LET c == calls[p] IN
    /\ RowsOf(c.exp.id, t) = {JobId(c.exp.id, t)}
    /\ ServiceRow(c.exp.id, t).id = JobId(c.exp.id, t)
    /\ ServiceRow(c.exp.id, t).timeStamp = DateOf(c.exp, t)
    /\ ServiceRow(c.exp.id, t).executionArn = c.sched[t].arn

\* C1: once updateExperimentSchedules has completed for an experiment in state
\* SCHEDULED that had no START_EXPERIMENT row, with the step-function start
\* call resolved, exactly one START_EXPERIMENT row exists for the experiment,
\* with id <experimentId>_START_EXPERIMENT, timeStamp startOn and the
\* executionArn the start call returned.
C1_StartJobCreated ==
    \A p \in Procs :
        (/\ Done(p)
         /\ calls[p].exp.state = SCHEDULED
         /\ calls[p].startDoc = NoRow
         /\ calls[p].sched[START_EXPERIMENT].arn # NoArn)
        => Scheduled(p, START_EXPERIMENT)

\* C2: once updateExperimentSchedules has completed for an experiment whose
\* state is neither ENROLLMENT_COMPLETE nor CANCELLED, whose endOn is set and
\* that had no END_EXPERIMENT row, with the step-function start call resolved,
\* exactly one END_EXPERIMENT row exists for the experiment, with id
\* <experimentId>_END_EXPERIMENT, timeStamp endOn and the executionArn the start
\* call returned.
C2_EndJobCreated ==
    \A p \in Procs :
        (/\ Done(p)
         /\ calls[p].exp.state \notin {ENROLLMENT_COMPLETE, CANCELLED}
         /\ calls[p].exp.endOn # NoDate
         /\ calls[p].endDoc = NoRow
         /\ calls[p].sched[END_EXPERIMENT].arn # NoArn)
        => Scheduled(p, END_EXPERIMENT)

\* C3: in every state, every scheduled_job row has an executionArn, and it names
\* an execution that was started for the row's id, timeStamp and type and has
\* not been stopped.
C3_RowsNameRunningExecutions ==
    \A j \in JobIds :
        jobs[j] # NoRow =>
            /\ jobs[j].executionArn # NoArn
            /\ jobs[j].executionArn \in DOMAIN execs
            /\ execs[jobs[j].executionArn].body = [id |-> jobs[j].id]
            /\ execs[jobs[j].executionArn].timeStamp = jobs[j].timeStamp
            /\ execs[jobs[j].executionArn].url = Url(jobs[j].type)
            /\ ~execs[jobs[j].executionArn].stopped

\* C3 witness: a call has completed after deleting one row of its experiment and
\* stopping that row's execution, and another row is still there.
C3_Witness ==
    \E p \in Procs :
        /\ Done(p)
        /\ calls[p].startDoc # NoRow
        /\ jobs[calls[p].startDoc.id] = NoRow
        /\ execs[calls[p].startDoc.executionArn].stopped
        /\ \E j \in JobIds : jobs[j] # NoRow

\* C4: once updateExperimentSchedules has completed, none of its repository or
\* step-function calls having been rejected, a row of a type that find gave it
\* and whose schedule condition does not hold has been deleted, and a stop of
\* the execution the row named has been requested.
C4_StaleRowDeleted ==
    \A p \in Procs : \A t \in SCHEDULE_TYPE :
        (/\ Done(p)
         /\ ~calls[p].rejected
         /\ DocOf(calls[p], t) # NoRow
         /\ ~Condition(calls[p].exp, t))
        => /\ jobs[DocOf(calls[p], t).id] = NoRow
           /\ execs[DocOf(calls[p], t).executionArn].stopRequested

\* C5: once updateExperimentSchedules has completed, none of its repository or
\* step-function calls having been rejected, a row of a type whose schedule
\* condition holds and whose timeStamp differed from the experiment's date has
\* kept its id, has the new date as timeStamp and the arn of an execution
\* started by this call for the new date, and the execution it named before has
\* been stopped.
C5_Rescheduled ==
    \A p \in Procs : \A t \in SCHEDULE_TYPE :
        LET c == calls[p]
            doc == DocOf(c, t)
        IN
        (/\ Done(p)
         /\ ~c.rejected
         /\ Condition(c.exp, t)
         /\ doc # NoRow
         /\ DateOf(c.exp, t) # NoDate
         /\ doc.timeStamp # DateOf(c.exp, t))
        => /\ jobs[doc.id].id = doc.id
           /\ jobs[doc.id].timeStamp = DateOf(c.exp, t)
           /\ c.sched[t].arn # NoArn
           /\ jobs[doc.id].executionArn = c.sched[t].arn
           /\ execs[c.sched[t].arn].timeStamp = DateOf(c.exp, t)
           /\ execs[doc.executionArn].stopped

\* C6: updateExperimentSchedules completes normally whatever was rejected: a
\* completed call has returned, and when one of its repository or
\* step-function calls was rejected the error has been logged.
C6_NeverFailsTowardsCaller ==
    \A p \in Procs :
        Done(p) => /\ calls[p].outcome = "returned"
                   /\ calls[p].rejected => calls[p].logged # "none"

\* C6 witness: a call has completed after one of its calls was rejected.
C6_Witness ==
    \E p \in Procs : Done(p) /\ calls[p].rejected

\* The row startExperiment / endExperiment found and whether its experiment is there.
JobExists(id) == jobs[id] # NoRow
ExperimentExists(id) == jobs[id].experimentId \in experimentRows

\* C7: startExperiment(id) requests the transition to ENROLLING, as the system
\* user, exactly when a row has that id, the row has an experimentId and that
\* experiment exists; the experiment named is the row's experimentId; otherwise
\* it returns an empty object and requests nothing.
C7_StartExperiment ==
    cb.op = "startExperiment" =>
        /\ cb.request # NoRequest <=>
              (JobExists(cb.id) /\ jobs[cb.id].experimentId # NoExp /\ ExperimentExists(cb.id))
        /\ cb.request # NoRequest =>
              cb.request = [experimentId |-> jobs[cb.id].experimentId,
                            state |-> ENROLLING, user |-> "system"]
        /\ cb.request = NoRequest =>
              (cb.outcome = "returned" /\ cb.result = "empty")

\* C7 witness: startExperiment has requested a transition.
C7_Witness ==
    cb.op = "startExperiment" /\ cb.request # NoRequest

\* C8: endExperiment(id) requests the transition of the row's experiment to
\* ENROLLMENT_COMPLETE when the row and its experiment exist; when the row or
\* the experiment is missing it returns an empty object, raises nothing and
\* requests nothing.
C8_EndExperiment ==
    cb.op = "endExperiment" =>
        IF JobExists(cb.id) /\ ExperimentExists(cb.id)
        THEN cb.request = [experimentId |-> jobs[cb.id].experimentId,
                           state |-> ENROLLMENT_COMPLETE, user |-> "system"]
        ELSE cb.outcome = "returned" /\ cb.result = "empty" /\ cb.request = NoRequest

\* C9: when createConnection fails, typeormLoader ends by raising an error:
\* DB_UNREACHABLE when the failure's code is ECONNREFUSED, DB_AUTH_FAIL for
\* every other failure; it hands over no connection.
C9_LoaderRaises ==
    loader.failed = "createConnection" =>
        /\ loader.pc = "done"
        /\ loader.raised # "none"
        /\ loader.code = "ECONNREFUSED" => loader.raised = DB_UNREACHABLE
        /\ loader.code # "ECONNREFUSED" => loader.raised = DB_AUTH_FAIL
        /\ ~loader.connection

\* C9 witness: createConnection was refused.
C9_Witness ==
    loader.failed = "createConnection" /\ loader.code = "ECONNREFUSED"

\* C10: startExperimentSchedular returns what the step-function start call
\* returned whenever that call resolved, and throws (QUERY_FAILED) only when it
\* was rejected.
C10_ReturnsStartData ==
    \A p \in Procs : \A t \in SCHEDULE_TYPE :
        LET s == calls[p].sched[t] IN
        s.called =>
            /\ s.arn # NoArn => (~s.threw /\ s.returned = s.arn)
            /\ s.threw => s.arn = NoArn

\* No updateExperimentSchedules call is in flight.
Quiet == \A p \in Procs : calls[p].pc \in {"idle", "done"}
InFlight(p) == calls[p].pc \notin {"idle", "done"}

\* C11: when updateExperimentSchedules is called a second time, right after a
\* call with the same state, startOn and endOn none of whose repository or
\* step-function calls was rejected, the second call starts and stops no
\* execution and writes and deletes no row.
C11_SecondCallChangesNothing ==
    [][(/\ calls[1].pc = "done"
        /\ ~calls[1].rejected
        /\ InFlight(2)
        /\ calls[2].exp = calls[1].exp)
       => (jobs' = jobs /\ execs' = execs)]_vars

\* C13: whenever no call is in flight, every execution that was started and not
\* stopped is the executionArn of a row, and no two running executions are for
\* the same row id.
C13_NoOrphanExecutions ==
    Quiet =>
        /\ \A a \in DOMAIN execs :
              ~execs[a].stopped =>
                  \E j \in JobIds : jobs[j] # NoRow /\ jobs[j].executionArn = a
        /\ \A a, b \in DOMAIN execs :
              (~execs[a].stopped /\ ~execs[b].stopped /\ execs[a].body = execs[b].body)
                  => a = b

\* The step-function service has called back for every execution that runs.
AllCalledBack ==
    \A a \in DOMAIN execs : ~execs[a].stopped => execs[a].response # "none"

\* C12: after updateExperimentSchedules has completed for an experiment in state
\* SCHEDULED with a startOn, none of its repository or step-function calls
\* having been rejected, and the step-function service has called back for
\* every execution that runs, startExperiment has been served for the id of the
\* experiment's START_EXPERIMENT job and has requested the transition to
\* ENROLLING.
C12_ScheduledStartRequested ==
    \A p \in Procs :
        (/\ Done(p)
         /\ ~calls[p].rejected
         /\ calls[p].exp.state = SCHEDULED
         /\ calls[p].exp.startOn # NoDate
         /\ AllCalledBack)
        => \E a \in DOMAIN execs :
              /\ execs[a].url = Url(START_EXPERIMENT)
              /\ execs[a].body = [id |-> JobId(calls[p].exp.id, START_EXPERIMENT)]
              /\ execs[a].response = "updateState"

\* The executions of type t for experiment e that still run.
RunningFor(e, t) ==
    {a \in DOMAIN execs : /\ ~execs[a].stopped
                          /\ execs[a].body = [id |-> JobId(e, t)]
                          /\ execs[a].url = Url(t)}

\* C14: once two calls for the same experiment that were in flight together
\* have both completed, none of their repository or step-function calls having
\* been rejected, the experiment has at most one row of each schedule type, and
\* the execution that row names is the only execution of that type that still
\* runs for the experiment.
C14_ConcurrentCallsAgree ==
    \A p, q \in Procs :
        (/\ p # q
         /\ Done(p) /\ Done(q)
         /\ ~calls[p].rejected /\ ~calls[q].rejected
         /\ calls[p].exp.id = calls[q].exp.id)
        => \A t \in SCHEDULE_TYPE :
              /\ Cardinality(RowsOf(calls[p].exp.id, t)) <= 1
              /\ \A j \in RowsOf(calls[p].exp.id, t) :
                    RunningFor(calls[p].exp.id, t) = {jobs[j].executionArn}

\* Call p takes a step of its body.
StepOf(p) == InFlight(p) /\ calls'[p] # calls[p]

\* Call p is in the reschedule of a row that find gave it.
Rescheduling(p) ==
    /\ DocOf(calls[p], calls[p].sec) # NoRow
    /\ Condition(calls[p].exp, calls[p].sec)

\* C15: in a reschedule, a call stops the execution the row records only once
\* the step-function start call of that reschedule has resolved; a step in
\* which the start call is rejected changes no row, stops no execution and
\* ends the call.
C15_StartBeforeStop ==
    [][\A p \in Procs : (StepOf(p) /\ Rescheduling(p)) =>
          LET c == calls[p]
              t == c.sec
              old == DocOf(c, t).executionArn
          IN /\ (\/ c.pc = "stopOld"
                 \/ /\ old \in DOMAIN execs
                    /\ execs'[old].stopRequested /\ ~execs[old].stopRequested)
                => c.sched[t].arn \in DOMAIN execs
             /\ (/\ c.pc = "schedule"
                 /\ calls'[p].sched[t].called /\ calls'[p].sched[t].arn = NoArn)
                => (jobs' = jobs /\ execs' = execs /\ calls'[p].pc = "done")]_vars

\* A finished call whose reschedule had its start call rejected: the row is
\* as it was found and its execution runs.
C15_Witness ==
    \E p \in Procs :
        LET c == calls[p]
            doc == DocOf(c, c.sec)
        IN /\ Done(p) /\ doc # NoRow /\ Condition(c.exp, c.sec)
           /\ c.sched[c.sec].called /\ c.sched[c.sec].arn = NoArn
           /\ jobs[doc.id] = doc
           /\ Running(doc.executionArn)

\* The rows and the executions of the end schedule are the same after the step.
EndScheduleUntouched ==
    /\ \A e \in Exps : jobs'[JobId(e, END_EXPERIMENT)] = jobs[JobId(e, END_EXPERIMENT)]
    /\ \A a \in DOMAIN execs' :
          execs'[a].url = Url(END_EXPERIMENT) => (a \in DOMAIN execs /\ execs'[a] = execs[a])

\* C16: a step of the start section changes no END_EXPERIMENT row and starts
\* or stops no execution of the end schedule, and a step of the start section
\* that fails ends the call there, the end section not entered.
C16_StartFailureEndsCall ==
    [][\A p \in Procs : (StepOf(p) /\ calls[p].sec = START_EXPERIMENT) =>
          /\ EndScheduleUntouched
          /\ calls'[p].logged # "none" =>
                /\ calls'[p].pc = "done"
                /\ calls'[p].sec = START_EXPERIMENT
                /\ ~calls'[p].sched[END_EXPERIMENT].called]_vars

\* A call that failed in its start section while it had an end schedule to
\* make or to remove.
C16_Witness ==
    \E p \in Procs :
        /\ Done(p) /\ calls[p].logged # "none" /\ calls[p].sec = START_EXPERIMENT
        /\ \/ calls[p].endDoc # NoRow /\ jobs[calls[p].endDoc.id] = calls[p].endDoc
           \/ experimentEndCondition(calls[p].exp)

\* C17: an experiment has at most one row of each schedule type, every row
\* has the id of its experiment and type, and so has every row a call builds
\* for a schedule that has none, as has the execution started for it.
C17_RowsUnique ==
    /\ \A e \in Exps, t \in SCHEDULE_TYPE : Cardinality(RowsOf(e, t)) <= 1
    /\ \A j \in JobIds : jobs[j] # NoRow =>
          jobs[j].id = JobId(jobs[j].experimentId, jobs[j].type)
    /\ \A p \in Procs : \A t \in SCHEDULE_TYPE :
          LET c == calls[p]
              built == DocOrNew(NoRow, c.exp, t)
          IN (InFlight(p) \/ Done(p)) /\ DocOf(c, t) = NoRow =>
                /\ built.id = JobId(c.exp.id, t)
                /\ built.experimentId = c.exp.id /\ built.type = t
                /\ c.sched[t].arn # NoArn =>
                      execs[c.sched[t].arn].body = [id |-> JobId(c.exp.id, t)]

\* A call has started the end schedule for a row it built while the start
\* row of the experiment is in the table.
C17_Witness ==
    \E p \in Procs :
        /\ calls[p].endDoc = NoRow
        /\ calls[p].sched[END_EXPERIMENT].arn # NoArn
        /\ ServiceRow(calls[p].exp.id, START_EXPERIMENT) # NoRow

====
